---- MODULE Spec2Model ----
(***************************************************************************)
(* Model of the stablecoin creation flow of STABLEFUN:                     *)
(*   src/src/components/CreateStablecoin.tsx  (both versions of the        *)
(*       CreateStablecoin component the file holds: lines 25-268 and       *)
(*       lines 328-653)                                                    *)
(*   src/src/utils/stablecoin-program.ts      (StablecoinProgram)          *)
(*                                                                         *)
(* JavaScript runs every piece of code between two awaits without          *)
(* interruption, so one action is one such piece: it starts at the return  *)
(* of the awaited call and ends at the next await (or at the end of the    *)
(* handler, its finally block included).  The ledger RPC node and the      *)
(* wallet are the environment: each awaited call returns one of the        *)
(* results the call can produce.                                           *)
(***************************************************************************)
EXTENDS Integers, Sequences, FiniteSets, TLC

\* ------------------------------------------------------------------ bounds
MaxAttempts == 2
MaxHeight == 1
MaxQueries == 2
ValidityWindow == 1
MaxEdits == 1

\* --------------------------------------------------------------- constants
\* createInitializeMintInstruction(stablecoinMint.publicKey, 6, ...)
MintDecimals == 6
\* program.methods.createStablecoin(name, symbol, 6, ...)   (second version)
StablecoinDecimals == 6
\* program.createStablecoin({..., decimals: 9, ...})        (first version)
FirstVariantDecimals == 9
\* useState<number | null>(null): the balance not yet known
NoBalance == -1

Attempts == 1..MaxAttempts

WalletKey == "walletPk"
TOKEN_PROGRAM_ID == "TokenProgram"
SystemProgramId == "SystemProgram"
SYSVAR_RENT_PUBKEY == "SysvarRent"

\* The <option> values of the bond <select>: "" and the mints of availableBonds,
\* which fetchBonds keeps only when new PublicKey(mint) accepts them.
ValidBonds == {"bondA", "bondB"}
BondOptions == {""} \cup ValidBonds
Currencies == {"USD", "MXN"}

\* new PublicKey(s): throws unless s decodes to a 32-byte address.
IsValidAddress(s) == s \in ValidBonds \cup {WalletKey, TOKEN_PROGRAM_ID, SystemProgramId, SYSVAR_RENT_PUBKEY}

\* useState({name: '', symbol: '', currency: 'USD', icon: '', bondMint: ''})
InitialForm == [name |-> "", symbol |-> "", currency |-> "USD", icon |-> "", bondMint |-> ""]

\* getMinimumBalanceForRentExemptMint(connection): what the node quotes.
RentQuotes == {1461600}

\* connection.getLatestBlockhash() at block height h.
LatestBlockhash(h) == [blockhash |-> "bh" \o ToString(h), lastValidBlockHeight |-> h + ValidityWindow]

NoBlockhash == [blockhash |-> "", lastValidBlockHeight |-> -1]
NoTx == [feePayer |-> "", recentBlockhash |-> "", lastValidBlockHeight |-> -1, instructions |-> <<>>, signatures |-> <<>>]
NoConfirmArgs == [signature |-> 0, blockhash |-> "", lastValidBlockHeight |-> -1]

IdleAttempt ==
  [kind |-> "none", pc |-> "idle", publicKey |-> "", form |-> InitialForm,
   mint |-> "", data |-> "", latestBlockhash |-> NoBlockhash, tx |-> NoTx,
   pendingIx |-> <<>>, signature |-> 0, confirmArgs |-> NoConfirmArgs,
   confirmation |-> "none", outcome |-> "none", error |-> ""]

VARIABLES
  variant,      \* which version of the component is mounted: 1 or 2; 0 when a
                \* caller drives a StablecoinProgram without the component
  publicKey,    \* useWallet().publicKey: "" while no wallet is connected
  formData,     \* useState formData
  loading,      \* useState loading
  bondBalance,  \* useState bondBalance (second version)
  balanceFor,   \* the bondMintStr of the checkBondBalance call that set
                \* bondBalance last: "" while none has
  queries,      \* token-account queries in flight, per bond mint
  height,       \* block height of the ledger
  sent,         \* signatures the node has returned from a broadcast
  nextKey,      \* number of keypairs generated so far, plus one
  started,      \* number of invocations made so far
  edits,        \* number of edits made to the currency field so far
  att           \* the invocations: locals and position of each

vars == <<variant, publicKey, formData, loading, bondBalance, balanceFor, queries, height, sent, nextKey, started, edits, att>>

\* ------------------------------------------------------------- pure parts

\* A component that keeps one pair of keypairs and hands it to every attempt.
KeypairCached(k) == "kp" \o ToString(1 + ((k - 1) % 2))

\* Keypair.generate(): the k-th keypair drawn from the secure random source.
KeypairGenerate(k) == "kp" \o ToString(k)

\* A guard that also turns away a caller without a positive bond balance.
WalletReadyAndFunded(pk) == pk # "" /\ bondBalance > 0

\* if (!publicKey || !wallet || !connection || !program): program is null
\* exactly when publicKey is (useMemo, lines 344-354).
WalletReady(pk) == pk # ""

\* A transaction constructed with the fee payer only, its blockhash left unset.
NewTransactionUnbound(pk, lb) ==
  [feePayer |-> pk, recentBlockhash |-> "", lastValidBlockHeight |-> 0,
   instructions |-> <<>>, signatures |-> <<>>]

\* new Transaction({feePayer, blockhash, lastValidBlockHeight})
NewTransaction(pk, lb) ==
  [feePayer |-> pk, recentBlockhash |-> lb.blockhash,
   lastValidBlockHeight |-> lb.lastValidBlockHeight,
   instructions |-> <<>>, signatures |-> <<>>]

\* SystemProgram.createAccount({fromPubkey, newAccountPubkey, space: MINT_SIZE, lamports, programId})
CreateAccountIx(pk, mint, rent) ==
  [op |-> "createAccount", programId |-> SystemProgramId,
   accounts |-> <<pk, mint>>, owner |-> TOKEN_PROGRAM_ID, lamports |-> rent,
   decimals |-> -1, text |-> <<>>]

\* createInitializeMintInstruction(mint, 6, publicKey, publicKey)
InitializeMintIx(pk, mint) ==
  [op |-> "initializeMint", programId |-> TOKEN_PROGRAM_ID,
   accounts |-> <<mint, pk, pk>>, owner |-> "", lamports |-> 0,
   decimals |-> MintDecimals, text |-> <<>>]

\* program.methods.createStablecoin(name, symbol, decimals, icon || '', currency)
\*   .accounts({authority, stablecoinData, stablecoinMint, bondMint,
\*              tokenProgram, systemProgram, rent}).instruction()
CreateStablecoinIx(f, dec, authority, data, mint) ==
  [op |-> "createStablecoin", programId |-> "StablecoinFactory",
   accounts |-> <<authority, data, mint, f.bondMint, TOKEN_PROGRAM_ID, SystemProgramId, SYSVAR_RENT_PUBKEY>>,
   owner |-> "", lamports |-> 0, decimals |-> dec,
   text |-> <<f.name, f.symbol, IF f.icon # "" THEN f.icon ELSE "", f.currency>>]

\* An add that puts the mint initialisation in front of the account creation.
AddInstructionsReordered(t, ixs) == [t EXCEPT !.instructions = @ \o <<ixs[2], ixs[1], ixs[3]>>]

\* transaction.add(createAccount, initializeMint, createStablecoin): the
\* arguments, in the order written, are appended to the instruction list.
AddInstructions(t, ixs) == [t EXCEPT !.instructions = @ \o ixs]

\* The local signing call left out: the transaction goes to the wallet unsigned.
SignLocalOmitted(t, a) == t

\* transaction.sign(stablecoinMint, stablecoinData)
SignLocal(t, a) == [t EXCEPT !.signatures = <<a.mint, a.data>>]

\* A confirmation that takes the expiry height from a second, later fetch.
ConfirmArgsMixed(sig, lb) ==
  [signature |-> sig, blockhash |-> lb.blockhash,
   lastValidBlockHeight |-> LatestBlockhash(height).lastValidBlockHeight]

\* A confirmation that polls for the signature broadcast before this one.
ConfirmArgsStaleSignature(sig, lb) ==
  [signature |-> sig - 1, blockhash |-> lb.blockhash, lastValidBlockHeight |-> lb.lastValidBlockHeight]

\* connection.confirmTransaction({signature, blockhash, lastValidBlockHeight})
\* with the latestBlockhash local of the invocation.
ConfirmArgs(sig, lb) ==
  [signature |-> sig, blockhash |-> lb.blockhash, lastValidBlockHeight |-> lb.lastValidBlockHeight]

\* The handler returns: its locals are gone; what stays is what left it (the
\* keypairs it generated, the signature it broadcast, the confirmation it saw,
\* the toast it showed).
Finished(a, outcome, kind) ==
  [IdleAttempt EXCEPT !.kind = a.kind, !.pc = "done", !.mint = a.mint, !.data = a.data,
                      !.signature = a.signature, !.confirmation = a.confirmation,
                      !.outcome = outcome, !.error = kind]

\* The catch block: toast.error(error.message) (sendTransaction: rethrow).
Failed(a, kind) == Finished(a, "error", kind)

\* toast.success (sendTransaction: return signature).
Succeeded(a) == Finished(a, "success", "")

\* ------------------------------------------------ handleSubmit, version 2

\* lines 452-458: the guard fails, toast.error, return before the try block.
SubmitNotConnected(i) ==
  /\ variant = 2 /\ i = started + 1 /\ i \in Attempts
  /\ ~WalletReady(publicKey)
  /\ started' = i
  /\ att' = [att EXCEPT ![i] = Failed([@ EXCEPT !.kind = "submit"], "connectWallet")]
  /\ UNCHANGED <<variant, balanceFor, publicKey, formData, loading, bondBalance, queries, height, sent, nextKey, edits>>

\* lines 452-468: setLoading(true), two keypairs, getLatestBlockhash() awaited.
SubmitStart(i) ==
  /\ variant = 2 /\ i = started + 1 /\ i \in Attempts
  /\ WalletReady(publicKey)
  /\ started' = i
  /\ loading' = TRUE
  /\ nextKey' = nextKey + 2
  /\ att' = [att EXCEPT ![i] = [@ EXCEPT !.kind = "submit", !.pc = "awaitBlockhash",
                                        !.publicKey = publicKey, !.form = formData,
                                        !.mint = KeypairGenerate(nextKey),
                                        !.data = KeypairGenerate(nextKey + 1)]]
  /\ UNCHANGED <<variant, balanceFor, publicKey, formData, bondBalance, queries, height, sent, edits>>

\* lines 468-478: the blockhash arrives, the transaction is constructed bound
\* to fee payer and blockhash, the rent query is awaited.
BlockhashReturn(i) ==
  /\ att[i].kind = "submit" /\ att[i].pc = "awaitBlockhash"
  /\ att' = [att EXCEPT ![i] = [@ EXCEPT !.pc = "awaitRent",
                                        !.latestBlockhash = LatestBlockhash(height),
                                        !.tx = NewTransaction(att[i].publicKey, LatestBlockhash(height))]]
  /\ UNCHANGED <<variant, balanceFor, publicKey, formData, loading, bondBalance, queries, height, sent, nextKey, started, edits>>

\* An awaited RPC call rejects: catch, toast.error, finally setLoading(false).
RpcFails(i) ==
  /\ att[i].kind = "submit" /\ att[i].pc \in {"awaitBlockhash", "awaitRent"}
  /\ att' = [att EXCEPT ![i] = Failed(@, "rpcError")]
  /\ loading' = FALSE
  /\ UNCHANGED <<variant, balanceFor, publicKey, formData, bondBalance, queries, height, sent, nextKey, started, edits>>

\* lines 478-517: the rent arrives; the arguments of transaction.add are
\* evaluated in order; new PublicKey(formData.bondMint) accepts the bond and
\* the instruction() promise is awaited.
RentReturn(i) ==
  /\ att[i].kind = "submit" /\ att[i].pc = "awaitRent"
  /\ IsValidAddress(att[i].form.bondMint)
  /\ \E rent \in RentQuotes :
       att' = [att EXCEPT ![i] = [@ EXCEPT !.pc = "awaitInstruction",
                 !.pendingIx = <<CreateAccountIx(att[i].publicKey, att[i].mint, rent),
                                 InitializeMintIx(att[i].publicKey, att[i].mint),
                                 CreateStablecoinIx(att[i].form, StablecoinDecimals, att[i].publicKey,
                                                    att[i].data, att[i].mint)>>]]
  /\ UNCHANGED <<variant, balanceFor, publicKey, formData, loading, bondBalance, queries, height, sent, nextKey, started, edits>>

\* line 512: new PublicKey(formData.bondMint) throws; nothing was added.
RentReturnInvalidBond(i) ==
  /\ att[i].kind = "submit" /\ att[i].pc = "awaitRent"
  /\ ~IsValidAddress(att[i].form.bondMint)
  /\ att' = [att EXCEPT ![i] = Failed(@, "invalidBond")]
  /\ loading' = FALSE
  /\ UNCHANGED <<variant, balanceFor, publicKey, formData, bondBalance, queries, height, sent, nextKey, started, edits>>

\* lines 481-526: the instruction is built; the three instructions are added,
\* the two keypairs sign, wallet.sendTransaction is awaited.
InstructionReturn(i) ==
  /\ att[i].kind = "submit" /\ att[i].pc = "awaitInstruction"
  /\ att' = [att EXCEPT ![i] = [@ EXCEPT !.pc = "awaitSend",
                                        !.tx = SignLocal(AddInstructions(@, att[i].pendingIx), att[i])]]
  /\ UNCHANGED <<variant, balanceFor, publicKey, formData, loading, bondBalance, queries, height, sent, nextKey, started, edits>>

\* instruction() rejects (the program client cannot encode the call).
InstructionFails(i) ==
  /\ att[i].kind = "submit" /\ att[i].pc = "awaitInstruction"
  /\ att' = [att EXCEPT ![i] = Failed(@, "buildError")]
  /\ loading' = FALSE
  /\ UNCHANGED <<variant, balanceFor, publicKey, formData, bondBalance, queries, height, sent, nextKey, started, edits>>

\* lines 524-533: the wallet signed and the node accepted the bytes; the
\* signature comes back and confirmTransaction is awaited.
SendReturn(i) ==
  /\ att[i].kind = "submit" /\ att[i].pc = "awaitSend"
  /\ LET sig == Cardinality(sent) + 1 IN
       /\ sent' = sent \cup {sig}
       /\ att' = [att EXCEPT ![i] = [@ EXCEPT !.pc = "awaitConfirm",
                                             !.tx.signatures = @ \o <<WalletKey>>,
                                             !.signature = sig,
                                             !.confirmArgs = ConfirmArgs(sig, att[i].latestBlockhash)]]
  /\ UNCHANGED <<variant, balanceFor, publicKey, formData, loading, bondBalance, queries, height, nextKey, started, edits>>

\* wallet.sendTransaction rejects: the user refused or the wallet is gone
\* (nothing was broadcast), or the node refused the signed bytes.
SendFails(i) ==
  /\ att[i].kind = "submit" /\ att[i].pc = "awaitSend"
  /\ \E kind \in {"walletError", "submissionError"} :
       att' = [att EXCEPT ![i] = Failed(IF kind = "submissionError"
                                        THEN [@ EXCEPT !.tx.signatures = @ \o <<WalletKey>>]
                                        ELSE @, kind)]
  /\ loading' = FALSE
  /\ UNCHANGED <<variant, balanceFor, publicKey, formData, bondBalance, queries, height, sent, nextKey, started, edits>>

\* lines 529-546: confirmTransaction resolves with or without a program
\* error, or rejects because the blockhash expired.  Which of the three the
\* web3.js client answers, and at what block height, is the client's doing:
\* the handler only hands it the pair and reports what comes back.
ConfirmReturn(i) ==
  /\ att[i].kind = "submit" /\ att[i].pc = "awaitConfirm"
  /\ \E c \in {"ok", "err", "expired"} :
       att' = [att EXCEPT ![i] =
                 IF c = "ok"
                 THEN Succeeded([@ EXCEPT !.confirmation = c])
                 ELSE Failed([@ EXCEPT !.confirmation = c],
                             IF c = "err" THEN "onChainError" ELSE "expired")]
  /\ loading' = FALSE
  /\ UNCHANGED <<variant, balanceFor, publicKey, formData, bondBalance, queries, height, sent, nextKey, started, edits>>

\* ------------------------------------------------------------ environment

\* The ledger produces a block.
BlockProduced ==
  /\ height < MaxHeight
  /\ height' = height + 1
  /\ UNCHANGED <<variant, balanceFor, publicKey, formData, loading, bondBalance, queries, sent, nextKey, started, edits, att>>

\* The currency <select>'s onChange (lines 203-211 and 580-588).
EditCurrency ==
  /\ variant # 0
  /\ edits < MaxEdits
  /\ edits' = edits + 1
  /\ \E c \in Currencies : c # formData.currency /\ formData' = [formData EXCEPT !.currency = c]
  /\ UNCHANGED <<variant, balanceFor, publicKey, loading, bondBalance, queries, height, sent, nextKey, started, att>>

\* -------------------------------------------------- bond balance (version 2)

\* The token accounts getParsedTokenAccountsByOwner can list: their uiAmounts.
AccountLists == {<<>>, <<0, 1>>, <<2, 1>>}

\* A balance read from the last account listed.
BalanceOfLast(accounts) == IF Len(accounts) > 0 THEN accounts[Len(accounts)] ELSE 0

\* lines 430-438: the amount of the first account found, 0 when none is.
BalanceOf(accounts) == IF Len(accounts) > 0 THEN accounts[1] ELSE 0

\* lines 413-425: checkBondBalance returns at once without a wallet; with one
\* it parses the mint and sends the query.
QueriesIssued(pk, m, calls) == IF pk # "" /\ m # "" /\ IsValidAddress(m) THEN calls ELSE 0

InFlight == queries["bondA"] + queries["bondB"]

Issue(m, n) == IF n = 0 THEN queries ELSE [queries EXCEPT ![m] = @ + n]

\* The bond <select>'s onChange.  Version 2 (handleBondSelect, lines 402-410):
\* setFormData, then checkBondBalance(bondMint) for a bond; the re-render finds
\* formData.bondMint changed and the effect of lines 446-450 calls
\* checkBondBalance again.  Version 1 (lines 241-245) only sets the field.
SelectBond(m) ==
  /\ variant # 0
  /\ m \in BondOptions /\ m # formData.bondMint
  /\ LET n == IF variant = 2 THEN QueriesIssued(publicKey, m, 2) ELSE 0 IN
       /\ InFlight + n <= MaxQueries
       /\ queries' = Issue(m, n)
  /\ formData' = [formData EXCEPT !.bondMint = m]
  /\ UNCHANGED <<variant, balanceFor, publicKey, loading, bondBalance, height, sent, nextKey, started, edits, att>>

\* The wallet connects or disconnects: publicKey changes, and in version 2 the
\* effect of lines 446-450 runs checkBondBalance for the selected bond.
WalletChange ==
  /\ publicKey' = IF publicKey = "" THEN WalletKey ELSE ""
  /\ LET n == IF variant = 2 THEN QueriesIssued(publicKey', formData.bondMint, 1) ELSE 0 IN
       /\ InFlight + n <= MaxQueries
       /\ queries' = Issue(formData.bondMint, n)
  /\ UNCHANGED <<variant, balanceFor, formData, loading, bondBalance, height, sent, nextKey, started, edits, att>>

\* lines 422-438: the query for mint m resolves with the accounts found.
BalanceResponse(m, accounts) ==
  /\ m \in ValidBonds /\ queries[m] > 0
  /\ accounts \in AccountLists
  /\ queries' = [queries EXCEPT ![m] = @ - 1]
  /\ bondBalance' = BalanceOf(accounts)
  /\ balanceFor' = m
  /\ UNCHANGED <<variant, publicKey, formData, loading, height, sent, nextKey, started, edits, att>>

\* lines 440-443: the query rejects; the catch block sets the balance to 0.
BalanceQueryFails(m) ==
  /\ m \in ValidBonds /\ queries[m] > 0
  /\ queries' = [queries EXCEPT ![m] = @ - 1]
  /\ bondBalance' = 0
  /\ balanceFor' = m
  /\ UNCHANGED <<variant, publicKey, formData, loading, height, sent, nextKey, started, edits, att>>

\* ------------------------------------------------ handleSubmit, version 1

\* lines 91-96: the guard fails.
FirstSubmitNotConnected(i) ==
  /\ variant = 1 /\ i = started + 1 /\ i \in Attempts
  /\ ~WalletReady(publicKey)
  /\ started' = i
  /\ att' = [att EXCEPT ![i] = Failed([@ EXCEPT !.kind = "submit"], "connectWallet")]
  /\ UNCHANGED <<variant, balanceFor, publicKey, formData, loading, bondBalance, queries, height, sent, nextKey, edits>>

\* lines 98-118 and 167-169: setLoading(true), two keypairs, the bond mint
\* does not parse: toast.error, return, and the finally block runs.
FirstSubmitInvalidBond(i) ==
  /\ variant = 1 /\ i = started + 1 /\ i \in Attempts
  /\ WalletReady(publicKey)
  /\ ~IsValidAddress(formData.bondMint)
  /\ started' = i
  /\ loading' = FALSE
  /\ nextKey' = nextKey + 2
  /\ att' = [att EXCEPT ![i] = Failed([@ EXCEPT !.kind = "submit", !.publicKey = publicKey,
                                               !.form = formData,
                                               !.data = KeypairGenerate(nextKey),
                                               !.mint = KeypairGenerate(nextKey + 1)],
                                      "invalidBond")]
  /\ UNCHANGED <<variant, balanceFor, publicKey, formData, bondBalance, queries, height, sent, edits>>

\* lines 98-150: the bond mint parses, the StablecoinProgram is constructed
\* and program.createStablecoin({..., decimals: 9, ...}) is awaited; the call
\* passes no authority.
FirstSubmitStart(i) ==
  /\ variant = 1 /\ i = started + 1 /\ i \in Attempts
  /\ WalletReady(publicKey)
  /\ IsValidAddress(formData.bondMint)
  /\ started' = i
  /\ loading' = TRUE
  /\ nextKey' = nextKey + 2
  /\ att' = [att EXCEPT ![i] =
       [@ EXCEPT !.kind = "submit", !.pc = "awaitCreate", !.publicKey = publicKey,
                 !.form = formData,
                 !.data = KeypairGenerate(nextKey),
                 !.mint = KeypairGenerate(nextKey + 1),
                 !.pendingIx = <<CreateStablecoinIx(formData, FirstVariantDecimals, "",
                                                    KeypairGenerate(nextKey),
                                                    KeypairGenerate(nextKey + 1))>>]]
  /\ UNCHANGED <<variant, balanceFor, publicKey, formData, bondBalance, queries, height, sent, edits>>

\* lines 152-162 and 167-169: createStablecoin resolves; toast.success, the
\* form is reset, setLoading(false).
FirstCreateReturn(i) ==
  /\ att[i].kind = "submit" /\ att[i].pc = "awaitCreate"
  /\ att' = [att EXCEPT ![i] = Succeeded(@)]
  /\ formData' = [name |-> "", symbol |-> "", currency |-> "USD", icon |-> "", bondMint |-> ""]
  /\ loading' = FALSE
  /\ UNCHANGED <<variant, balanceFor, publicKey, bondBalance, queries, height, sent, nextKey, started, edits>>

\* lines 163-169: createStablecoin rejects.
FirstCreateFails(i) ==
  /\ att[i].kind = "submit" /\ att[i].pc = "awaitCreate"
  /\ att' = [att EXCEPT ![i] = Failed(@, "buildError")]
  /\ loading' = FALSE
  /\ UNCHANGED <<variant, balanceFor, publicKey, formData, bondBalance, queries, height, sent, nextKey, started, edits>>

\* ------------------------------------- StablecoinProgram.sendTransaction

\* The pair sendTransaction hands to confirmTransaction (lines 116-120).
ProgramConfirmArgs(sig, lb) ==
  [signature |-> sig, blockhash |-> lb.blockhash, lastValidBlockHeight |-> lb.lastValidBlockHeight]

\* line 107-109: a caller holding a StablecoinProgram (its constructor needs
\* wallet.publicKey) passes a transaction; getLatestBlockhash is awaited.
ProgramSendStart(i) ==
  /\ variant = 0 /\ i = started + 1 /\ i \in Attempts
  /\ publicKey # ""
  /\ started' = i
  /\ att' = [att EXCEPT ![i] = [@ EXCEPT !.kind = "program", !.pc = "awaitBlockhash",
                                        !.publicKey = publicKey]]
  /\ UNCHANGED <<variant, balanceFor, publicKey, formData, loading, bondBalance, queries, height, sent, nextKey, edits>>

\* lines 109-113: blockhash and fee payer are set, signTransaction is awaited.
ProgramBlockhashReturn(i) ==
  /\ att[i].kind = "program" /\ att[i].pc = "awaitBlockhash"
  /\ att' = [att EXCEPT ![i] = [@ EXCEPT !.pc = "awaitSign",
                                        !.latestBlockhash = LatestBlockhash(height),
                                        !.tx.recentBlockhash = LatestBlockhash(height).blockhash,
                                        !.tx.feePayer = att[i].publicKey]]
  /\ UNCHANGED <<variant, balanceFor, publicKey, formData, loading, bondBalance, queries, height, sent, nextKey, started, edits>>

\* lines 113-114: the wallet signed, sendRawTransaction is awaited.
ProgramSignReturn(i) ==
  /\ att[i].kind = "program" /\ att[i].pc = "awaitSign"
  /\ att' = [att EXCEPT ![i] = [@ EXCEPT !.pc = "awaitSend", !.tx.signatures = @ \o <<WalletKey>>]]
  /\ UNCHANGED <<variant, balanceFor, publicKey, formData, loading, bondBalance, queries, height, sent, nextKey, started, edits>>

\* lines 114-120: the node returns the signature, confirmTransaction is awaited.
ProgramSendReturn(i) ==
  /\ att[i].kind = "program" /\ att[i].pc = "awaitSend"
  /\ LET sig == Cardinality(sent) + 1 IN
       /\ sent' = sent \cup {sig}
       /\ att' = [att EXCEPT ![i] = [@ EXCEPT !.pc = "awaitConfirm", !.signature = sig,
                                             !.confirmArgs = ProgramConfirmArgs(sig, att[i].latestBlockhash)]]
  /\ UNCHANGED <<variant, balanceFor, publicKey, formData, loading, bondBalance, queries, height, nextKey, started, edits>>

\* lines 116-122: confirmTransaction resolves; its value is dropped and the
\* signature is returned, with or without a program error.
ProgramConfirmReturn(i) ==
  /\ att[i].kind = "program" /\ att[i].pc = "awaitConfirm"
  /\ \E c \in {"ok", "err"} :
       att' = [att EXCEPT ![i] = Succeeded([@ EXCEPT !.confirmation = c])]
  /\ UNCHANGED <<variant, balanceFor, publicKey, formData, loading, bondBalance, queries, height, sent, nextKey, started, edits>>

\* lines 123-126: an awaited call rejects; the error is logged and rethrown.
ProgramFails(i) ==
  /\ att[i].kind = "program"
  /\ att[i].pc \in {"awaitBlockhash", "awaitSign", "awaitSend", "awaitConfirm"}
  /\ att' = [att EXCEPT ![i] =
       Failed([@ EXCEPT !.confirmation = IF att[i].pc = "awaitConfirm" THEN "expired" ELSE "none"],
              CASE att[i].pc = "awaitBlockhash" -> "rpcError"
                [] att[i].pc = "awaitSign" -> "walletError"
                [] att[i].pc = "awaitSend" -> "submissionError"
                [] OTHER -> "expired")]
  /\ UNCHANGED <<variant, balanceFor, publicKey, formData, loading, bondBalance, queries, height, sent, nextKey, started, edits>>

Init ==
  /\ variant \in {0, 1, 2}
  /\ publicKey \in {"", WalletKey}
  /\ formData = InitialForm
  /\ loading = FALSE
  /\ bondBalance = NoBalance
  /\ balanceFor = ""
  /\ queries = [m \in ValidBonds |-> 0]
  /\ height = 0
  /\ sent = {}
  /\ nextKey = 1
  /\ started = 0
  /\ edits = 0
  /\ att = [i \in Attempts |-> IdleAttempt]

Next ==
  \/ \E i \in Attempts : SubmitNotConnected(i)
  \/ \E i \in Attempts : SubmitStart(i)
  \/ \E i \in Attempts : BlockhashReturn(i)
  \/ \E i \in Attempts : RpcFails(i)
  \/ \E i \in Attempts : RentReturn(i)
  \/ \E i \in Attempts : RentReturnInvalidBond(i)
  \/ \E i \in Attempts : InstructionReturn(i)
  \/ \E i \in Attempts : InstructionFails(i)
  \/ \E i \in Attempts : SendReturn(i)
  \/ \E i \in Attempts : SendFails(i)
  \/ \E i \in Attempts : ConfirmReturn(i)
  \/ \E i \in Attempts : FirstSubmitNotConnected(i)
  \/ \E i \in Attempts : FirstSubmitInvalidBond(i)
  \/ \E i \in Attempts : FirstSubmitStart(i)
  \/ \E i \in Attempts : FirstCreateReturn(i)
  \/ \E i \in Attempts : FirstCreateFails(i)
  \/ \E i \in Attempts : ProgramSendStart(i)
  \/ \E i \in Attempts : ProgramBlockhashReturn(i)
  \/ \E i \in Attempts : ProgramSignReturn(i)
  \/ \E i \in Attempts : ProgramSendReturn(i)
  \/ \E i \in Attempts : ProgramConfirmReturn(i)
  \/ \E i \in Attempts : ProgramFails(i)
  \/ \E m \in BondOptions : SelectBond(m)
  \/ WalletChange
  \/ \E m \in ValidBonds, accounts \in AccountLists : BalanceResponse(m, accounts)
  \/ \E m \in ValidBonds : BalanceQueryFails(m)
  \/ BlockProduced
  \/ EditCurrency

Spec == Init /\ [][Next]_vars

\* ------------------------------------------------------------------ properties

Ops(ixs) == [k \in 1..Len(ixs) |-> ixs[k].op]
Range(f) == {f[k] : k \in DOMAIN f}
InFlightPcs == {"awaitBlockhash", "awaitRent", "awaitInstruction", "awaitSend", "awaitConfirm", "awaitCreate", "awaitSign"}
OwnKeys(i) == {att[i].mint, att[i].data} \ {""}
\* Every address an attempt has put into an instruction or signed with.
KeysUsed(i) ==
  UNION {Range(ix.accounts) : ix \in Range(att[i].tx.instructions) \cup Range(att[i].pendingIx)}
    \cup Range(att[i].tx.signatures)

\* C1: in the second version's handleSubmit, a transaction that has been
\* assembled (the handler is at or past wallet.sendTransaction) holds exactly
\* the three instructions create-account, initialize-mint, create-stablecoin in
\* that order, and before assembly it holds none, whatever the form holds.
C1_ThreeInstructionsInOrder ==
  \A i \in Attempts :
    (variant = 2 /\ att[i].kind = "submit") =>
      /\ att[i].pc \in {"awaitSend", "awaitConfirm"} =>
           Ops(att[i].tx.instructions) = <<"createAccount", "initializeMint", "createStablecoin">>
      /\ att[i].pc \notin {"awaitSend", "awaitConfirm"} => att[i].tx.instructions = <<>>

\* Two attempts built from different form contents are both assembled.
C1_Witness ==
  \E i, j \in Attempts :
    /\ variant = 2 /\ i # j
    /\ att[i].pc = "awaitSend" /\ att[j].pc = "awaitConfirm"
    /\ att[i].form.bondMint # att[j].form.bondMint
    /\ att[i].form.currency # att[j].form.currency

\* C2: an attempt whose bondMint does not parse as an address has made no
\* network call: it is at none of the awaited calls of handleSubmit.
C2_InvalidBondNoNetworkCall ==
  \A i \in Attempts :
    (att[i].kind = "submit" /\ ~IsValidAddress(att[i].form.bondMint)) =>
      att[i].pc \notin InFlightPcs

\* C3: while confirmTransaction is awaited, the pair it was given is the pair
\* one getLatestBlockhash call returned, and it is the pair bound into the
\* transaction that was broadcast.
C3_ConfirmUsesBroadcastPair ==
  \A i \in Attempts :
    att[i].pc = "awaitConfirm" =>
      /\ \E h \in 0..height :
           /\ att[i].confirmArgs.blockhash = LatestBlockhash(h).blockhash
           /\ att[i].confirmArgs.lastValidBlockHeight = LatestBlockhash(h).lastValidBlockHeight
      /\ att[i].confirmArgs.blockhash = att[i].tx.recentBlockhash
      /\ att[i].kind = "submit" =>
           att[i].confirmArgs.lastValidBlockHeight = att[i].tx.lastValidBlockHeight

\* An attempt awaits its confirmation after the ledger moved on from the block
\* its blockhash was fetched at.
C3_Witness ==
  \E i \in Attempts :
    /\ att[i].kind = "submit" /\ att[i].pc = "awaitConfirm"
    /\ att[i].latestBlockhash # LatestBlockhash(height)

\* C4: a confirmation is polled only for the signature the attempt's own
\* broadcast returned, and no poll is made before that broadcast returned.
C4_BroadcastBeforeConfirm ==
  \A i \in Attempts :
    /\ att[i].pc = "awaitConfirm" =>
         /\ att[i].signature \in sent
         /\ att[i].confirmArgs.signature = att[i].signature
         /\ \A j \in Attempts : j # i => att[j].signature # att[i].signature
    /\ att[i].pc \in InFlightPcs \ {"awaitConfirm"} =>
         /\ att[i].signature = 0
         /\ att[i].confirmArgs = NoConfirmArgs

\* Two attempts have broadcast and both await their confirmation.
C4_Witness ==
  \E i, j \in Attempts :
    /\ i # j /\ att[i].kind = "submit"
    /\ att[i].pc = "awaitConfirm" /\ att[j].pc = "awaitConfirm"

\* C6: a finished attempt of the second version's handleSubmit or of
\* StablecoinProgram.sendTransaction reports success only after a confirmation
\* without program error; a confirmation with a program error is reported as
\* the failure onChainError, an expired one as the failure expired.
C6_SuccessOnlyWhenConfirmedClean ==
  \A i \in Attempts :
    (variant # 1 /\ att[i].pc = "done") =>
      /\ att[i].outcome = "success" => att[i].confirmation = "ok"
      /\ att[i].confirmation = "err" => (att[i].outcome = "error" /\ att[i].error = "onChainError")
      /\ att[i].confirmation = "expired" => (att[i].outcome = "error" /\ att[i].error = "expired")

\* C7: every initialize-mint and every create-stablecoin instruction built, on
\* any code path, carries the one decimals value of the initialize-mint call.
C7_SingleDecimals ==
  \A i \in Attempts :
    \A ix \in Range(att[i].tx.instructions) \cup Range(att[i].pendingIx) :
      ix.op \in {"initializeMint", "createStablecoin"} => ix.decimals = MintDecimals

\* C8: the keypairs of any two attempts are four different keypairs, and an
\* attempt's instructions and signatures use no keypair of another attempt.
C8_FreshKeypairs ==
  \A i \in Attempts :
    /\ att[i].mint # "" => att[i].mint # att[i].data
    /\ \A j \in Attempts : j # i =>
         /\ OwnKeys(i) \cap OwnKeys(j) = {}
         /\ KeysUsed(i) \cap OwnKeys(j) = {}

\* An attempt expired, and the retry has signed its transaction.
C8_Witness ==
  \E i, j \in Attempts :
    /\ i < j /\ att[i].error = "expired"
    /\ att[j].pc = "awaitSend" /\ Len(att[j].tx.signatures) = 2

\* C9: in the second version, whatever bondBalance holds, handleSubmit with a
\* connected wallet enters the pipeline (it is not turned away), and every
\* awaited call of an attempt with a valid bondMint can return into the next
\* stage: build, sign, broadcast, confirmation.
C9_BalanceAdvisory ==
  variant = 2 =>
    /\ (started < MaxAttempts /\ publicKey # "") =>
         /\ ENABLED SubmitStart(started + 1)
         /\ ~ENABLED SubmitNotConnected(started + 1)
    /\ \A i \in Attempts :
         (att[i].kind = "submit" /\ IsValidAddress(att[i].form.bondMint)) =>
           /\ att[i].pc = "awaitBlockhash" => ENABLED BlockhashReturn(i)
           /\ att[i].pc = "awaitRent" => ENABLED RentReturn(i)
           /\ att[i].pc = "awaitInstruction" => ENABLED InstructionReturn(i)
           /\ att[i].pc = "awaitSend" => ENABLED SendReturn(i)
           /\ att[i].pc = "awaitConfirm" => ENABLED ConfirmReturn(i)

\* With a balance of 0 shown, an attempt has broadcast and awaits confirmation
\* while another can still be started.
C9_Witness ==
  /\ variant = 2 /\ bondBalance = 0 /\ publicKey # "" /\ started < MaxAttempts
  /\ \E i \in Attempts : att[i].pc = "awaitConfirm"

\* C10: when a token-account query resolves, bondBalance becomes 0 if no
\* account was returned and the amount of the first account otherwise.
C10_BalanceFromFirstAccount ==
  [][\A m \in ValidBonds, accounts \in AccountLists :
       BalanceResponse(m, accounts) =>
         bondBalance' = IF accounts = <<>> THEN 0 ELSE Head(accounts)]_vars

\* A query has resolved with accounts and the first one's amount is shown.
C10_Witness == bondBalance = 2 /\ InFlight = 0 /\ formData.bondMint \in ValidBonds

\* The message of a transaction: what every signer signs.
Message(t) == <<t.instructions, t.feePayer, t.recentBlockhash>>
\* The wallet has been asked to sign and has not answered yet.
WalletInvoked(a) ==
  \/ a.kind = "submit" /\ a.pc = "awaitSend"
  \/ a.kind = "program" /\ a.pc = "awaitSign"
ThreeOps == <<"createAccount", "initializeMint", "createStablecoin">>

\* C11: in every attempt the local signers stablecoinMint and stablecoinData
\* sign first and the wallet signs after them: no signature exists before the
\* transaction is complete, the two local signatures are in place while the
\* wallet is being asked, the wallet's signature comes third, and from the
\* moment the wallet is invoked the message (instructions, fee payer,
\* blockhash) does not change as long as the attempt runs.  sendTransaction has
\* no local signer: the wallet is the only one to sign, after the binding.
C11_LocalSignersBeforeWallet ==
  /\ [](\A i \in Attempts :
          LET a == att[i] IN
            /\ (a.kind = "submit" /\ variant = 2) =>
                 /\ a.pc \in {"awaitBlockhash", "awaitRent", "awaitInstruction"} => a.tx.signatures = <<>>
                 /\ a.pc = "awaitSend" => a.tx.signatures = <<a.mint, a.data>>
                 /\ a.pc = "awaitConfirm" => a.tx.signatures = <<a.mint, a.data, WalletKey>>
            /\ a.kind = "program" =>
                 /\ a.pc \in {"awaitBlockhash", "awaitSign"} => a.tx.signatures = <<>>
                 /\ a.pc \in {"awaitSend", "awaitConfirm"} => a.tx.signatures = <<WalletKey>>)
  /\ [][\A i \in Attempts :
          (WalletInvoked(att[i]) /\ att'[i].pc \in InFlightPcs) =>
            Message(att'[i].tx) = Message(att[i].tx)]_vars

\* The wallet has signed third, after both local signers, a complete transaction.
C11_Witness ==
  \E i \in Attempts :
    /\ att[i].kind = "submit" /\ att[i].pc = "awaitConfirm"
    /\ att[i].tx.signatures = <<att[i].mint, att[i].data, WalletKey>>
    /\ Len(att[i].tx.instructions) = 3

\* C12 as stated: whenever a transaction of handleSubmit has its fee payer and
\* blockhash bound, all three instructions are already in it.
C12_InstructionsBeforeBinding ==
  \A i \in Attempts :
    (variant = 2 /\ att[i].kind = "submit" /\ att[i].tx.recentBlockhash # "") =>
      Ops(att[i].tx.instructions) = ThreeOps

\* C12, amended: no instruction is added to a transaction after it has been
\* signed.  handleSubmit binds fee payer and blockhash when it constructs the
\* transaction, while it is still empty; the three instructions are added
\* afterwards in one call; at the first signature all three and the binding
\* are in the envelope, and the instruction list never changes afterwards.
C12_InstructionsBeforeSigning ==
  /\ [](\A i \in Attempts :
          LET a == att[i] IN
            (variant = 2 /\ a.kind = "submit") =>
              /\ a.pc = "awaitRent" =>
                   /\ a.tx.feePayer = a.publicKey
                   /\ a.tx.recentBlockhash = a.latestBlockhash.blockhash
                   /\ a.tx.recentBlockhash # ""
                   /\ a.tx.instructions = <<>>
              /\ a.tx.signatures # <<>> =>
                   /\ Ops(a.tx.instructions) = ThreeOps
                   /\ a.tx.feePayer = a.publicKey
                   /\ a.tx.recentBlockhash = a.latestBlockhash.blockhash
                   /\ a.tx.recentBlockhash # "")
  /\ [][\A i \in Attempts :
          (att[i].tx.signatures # <<>> /\ att'[i].pc \in InFlightPcs) =>
            att'[i].tx.instructions = att[i].tx.instructions]_vars

\* The local signers have just signed a bound transaction holding the three
\* instructions; the wallet has not signed yet.
C12_Witness ==
  \E i \in Attempts :
    /\ variant = 2 /\ att[i].kind = "submit" /\ att[i].pc = "awaitSend"
    /\ att[i].tx.signatures = <<att[i].mint, att[i].data>>
    /\ Ops(att[i].tx.instructions) = ThreeOps
    /\ att[i].tx.recentBlockhash # ""

\* C13: a wallet failure and an on-chain program error end the attempt and
\* reach the caller as failures, and nothing is retried: an attempt that has
\* reported is not running; a wallet failure leaves the attempt without
\* broadcast and without confirmation; a confirmation carrying a program error
\* ends as the failure onChainError; every broadcast made is the one broadcast
\* of some attempt; and the only keypairs derived are the two each submission
\* derives when it starts.
C13_TerminalWithoutRetry ==
  /\ \A i \in Attempts :
       /\ att[i].outcome # "none" => att[i].pc = "done"
       /\ att[i].error = "walletError" =>
            /\ att[i].outcome = "error"
            /\ att[i].signature = 0 /\ att[i].confirmation = "none"
       /\ (att[i].confirmation = "err" /\ att[i].pc = "done") =>
            /\ att[i].outcome = "error" /\ att[i].error = "onChainError"
  /\ Cardinality(sent) = Cardinality({i \in Attempts : att[i].signature # 0})
  /\ nextKey = 1 + 2 * Cardinality({i \in Attempts : att[i].mint # ""})

\* The same without the demand that the failure reaches the caller.
C13_NoRetry ==
  /\ \A i \in Attempts :
       /\ att[i].outcome # "none" => att[i].pc = "done"
       /\ att[i].error = "walletError" => (att[i].signature = 0 /\ att[i].confirmation = "none")
  /\ Cardinality(sent) = Cardinality({i \in Attempts : att[i].signature # 0})
  /\ nextKey = 1 + 2 * Cardinality({i \in Attempts : att[i].mint # ""})

\* An invocation of the component's handleSubmit that has called
\* setLoading(true) and has not run its finally block.
SubmitInFlight(i) == att[i].kind = "submit" /\ att[i].pc \in InFlightPcs

\* C14: the loading flag is true exactly while at least one handleSubmit
\* invocation is in flight, and an invocation turned away for a disconnected
\* wallet leaves the flag as it was.
C14_LoadingIffInFlight ==
  /\ [](variant # 0 => (loading <=> \E i \in Attempts : SubmitInFlight(i)))
  /\ [][\A i \in Attempts :
          (SubmitNotConnected(i) \/ FirstSubmitNotConnected(i)) => loading' = loading]_vars

\* The half of C14 that holds: while the flag shows, a submission is in flight.
C14_LoadingImpliesInFlight == loading => \E i \in Attempts : SubmitInFlight(i)

\* C15: once no balance query is outstanding, the balance shown for the
\* selected bond of the connected wallet was set by a query for that bond: the
\* answer to a query for a bond selected earlier has not replaced it.
C15_BalanceOfCurrentSelection ==
  (variant = 2 /\ InFlight = 0 /\ publicKey # "" /\ formData.bondMint \in ValidBonds) =>
    balanceFor = formData.bondMint
====
